---- MODULE Spec2Model ----
(***************************************************************************)
(* Model of the NL -> MoveIt bridge: the pydantic command schema           *)
(* (schema/schema.py), the safety filter (safety/filter.py) and the step   *)
(* executor NLBridge (bridge/bridge.py).                                   *)
(*                                                                         *)
(* Units: every float of the source is an integer number of thousandths    *)
(* (0.6 -> 600, 0.99 -> 990, -0.4 -> -400).                                *)
(* Optional[T] is a sequence of length 0 (None) or 1 (a value).            *)
(***************************************************************************)
EXTENDS Integers, Sequences, FiniteSets, TLC

VARIABLES
    pc,         \* position of the on_json handler
    cmd,        \* the validated Command being handled
    i,          \* 0-based index of the step being executed (enumerate)
    ret,        \* Optional (ok, err) pair returned by the last execute_step
    results,    \* the (ok, err) pairs execute_step returned for this message
    calls,      \* resolver and backend requests made for the current message
    emitted,    \* status messages published for the current message
    armCons,    \* a path constraint is installed on self.arm
    armVel,     \* max velocity scaling factor set on self.arm
    armAcc,     \* max acceleration scaling factor set on self.arm
    obs,        \* what resolver and backend answered during the current step
    pk,         \* waypoint harness: the poses _do_pick builds and sends
    fcmd,       \* filter harness: the Command handed to validate_command
    fres        \* filter harness: Optional result of validate_command(fcmd)

vars == <<pc, cmd, i, ret, results, calls, emitted, armCons, armVel, armAcc,
          obs, fcmd, fres, pk>>
bridgeVars == <<pc, cmd, i, ret, results, calls, emitted, armCons, armVel,
                armAcc, obs>>
filterVars == <<fcmd, fres>>
harnessVars == <<fcmd, fres, pk>>

None == <<>>
Some(x) == <<x>>

----------------------------------------------------------------------------
(* Bounds *)

MaxSteps == 3          \* steps per command handled by the bridge
MaxFilterSteps == 2    \* steps per command handed to the filter harness

----------------------------------------------------------------------------
(* schema/schema.py *)

DEFAULT_VEL_SCALE == 500
DEFAULT_ACCEL_SCALE == 300
DEFAULT_PREGRASP_M == 80

Globals(vel, acc) == [vel_scale |-> vel, accel_scale |-> acc]

Constraints(kv) == [keep_vertical |-> kv]

Grasp(pregrasp) == [pregrasp_m |-> pregrasp]

Step(action, object, target, frame, pose, offset, grasp, constraints) ==
    [action |-> action, object |-> object, target |-> target, frame |-> frame,
     pose_xyzrpy |-> pose, offset_xyz |-> offset, grasp |-> grasp,
     constraints |-> constraints]

Command(steps, globals) == [steps |-> steps, globals_ |-> globals]

\* Python truthiness of an Optional[List[float]]: None and [] are falsy.
Truthy(optList) == optList # None /\ optList[1] # <<>>

----------------------------------------------------------------------------
(* safety/filter.py *)

WORKSPACE_AABB == << <<-400, 600>>, <<-400, 600>>, <<0, 600>> >>
VEL_CAP == 600
ACC_CAP == 600
ALLOWED_ACTIONS == {"pick", "place", "move_ee"}

\* point[:3]
Slice3(point) == SubSeq(point, 1, IF Len(point) < 3 THEN Len(point) ELSE 3)

\* open intervals instead of closed ones
AxisInsideStrict(point, a) ==
    WORKSPACE_AABB[a][1] < point[a] /\ point[a] < WORKSPACE_AABB[a][2]

\* WORKSPACE_AABB[i][0] <= point[i] <= WORKSPACE_AABB[i][1]
AxisInside(point, a) ==
    WORKSPACE_AABB[a][1] <= point[a] /\ point[a] <= WORKSPACE_AABB[a][2]

\* all(... for i in range(3)) evaluated lazily from axis a on: the first
\* axis outside the envelope ends the scan with False; indexing past the end
\* of the point raises IndexError.
RECURSIVE AabbFrom(_, _)
AabbFrom(point, a) ==
    IF a > 3 THEN "True"
    ELSE IF a > Len(point) THEN "IndexError"
    ELSE IF ~AxisInside(point, a) THEN "False"
    ELSE AabbFrom(point, a + 1)

in_aabb(point) == AabbFrom(point, 1)

Ok == [kind |-> "ok", error |-> "", hint |-> <<>>]
Reject(error, hint) == [kind |-> "error", error |-> error, hint |-> hint]
Raised(exc) == [kind |-> "raise", error |-> exc, hint |-> <<>>]
Pass == [kind |-> "pass", error |-> "", hint |-> <<>>]

ActionRule(step) ==
    IF step.action \notin ALLOWED_ACTIONS
    THEN Reject("invalid_action", <<>>) ELSE Pass

WorkspaceRule(step) ==
    IF Truthy(step.pose_xyzrpy)
    THEN LET p == Slice3(step.pose_xyzrpy[1])
             r == in_aabb(p)
         IN IF r = "IndexError" THEN Raised("IndexError")
            ELSE IF r = "False" THEN Reject("out_of_workspace", p)
            ELSE Pass
    ELSE Pass

\* Body of the loop over cmd.steps, lines 14-19: rules in the wrong order.
CheckStepWorkspaceFirst(step) ==
    IF WorkspaceRule(step).kind # "pass" THEN WorkspaceRule(step)
    ELSE ActionRule(step)

\* Body of the loop over cmd.steps, lines 14-19.
CheckStep(step) ==
    IF ActionRule(step).kind # "pass" THEN ActionRule(step)
    ELSE WorkspaceRule(step)

RECURSIVE CheckStepsFrom(_, _)
CheckStepsFrom(steps, k) ==
    IF k > Len(steps) THEN Pass
    ELSE IF CheckStep(steps[k]).kind # "pass" THEN CheckStep(steps[k])
    ELSE CheckStepsFrom(steps, k + 1)

\* >= instead of >
VelTooHighAtCap(globals) == globals.vel_scale >= VEL_CAP

\* line 21
VelTooHigh(globals) == globals.vel_scale > VEL_CAP

\* line 24
AccTooHigh(globals) == globals.accel_scale > ACC_CAP

validate_command(c) ==
    LET s == CheckStepsFrom(c.steps, 1)
    IN IF s.kind # "pass" THEN s
       ELSE IF VelTooHigh(c.globals_) THEN Reject("vel_too_high", <<VEL_CAP>>)
       ELSE IF AccTooHigh(c.globals_) THEN Reject("accel_too_high", <<ACC_CAP>>)
       ELSE Ok

----------------------------------------------------------------------------
(* Inputs of the filter harness (tests/test_parser.py builds Commands        *)
(* directly and hands them to validate_command).                             *)

BasePoint == <<0, 0, 0>>
AxisVals(a) == {WORKSPACE_AABB[a][1] - 1, WORKSPACE_AABB[a][1],
                WORKSPACE_AABB[a][2], WORKSPACE_AABB[a][2] + 1}
\* xyz triples that leave the envelope on at most one axis, at its bounds
OneAxisPoints ==
    UNION {{[BasePoint EXCEPT ![a] = v] : v \in AxisVals(a)} : a \in 1..3}
Rpy0 == <<0, 0, 0>>
TestPoseInside == <<500, 100, 200, 0, 0, 0>>
TestPoseOutside == <<1200, 800, 700, 0, 0, 0>>
FilterPoses ==
    {None, Some(<<>>), Some(<<0>>), Some(<<601>>), Some(<<0, 0>>),
     Some(<<0, 601>>), Some(TestPoseInside), Some(TestPoseOutside)}
    \cup {Some(p \o Rpy0) : p \in OneAxisPoints}

FilterSteps ==
    {Step("move_ee", None, None, None, p, None, None, None) : p \in FilterPoses}
    \cup {Step("dance", None, None, None, p, None, None, None) :
            p \in {None, Some(TestPoseOutside)}}
    \cup {Step("pick", Some("red_cube"), None, None, None, None,
               Some(Grasp(DEFAULT_PREGRASP_M)), None),
          Step("place", None, Some("blue_box"), None, None, None, None,
               Some(Constraints(TRUE)))}

RECURSIVE SeqsUpTo(_, _)
SeqsUpTo(S, n) ==
    IF n = 0 THEN {<<>>}
    ELSE LET shorter == SeqsUpTo(S, n - 1)
         IN shorter \cup {Append(s, x) : s \in {t \in shorter : Len(t) = n - 1},
                                         x \in S}

FilterVels == {DEFAULT_VEL_SCALE, VEL_CAP, VEL_CAP + 1}
FilterAccs == {DEFAULT_ACCEL_SCALE, ACC_CAP, ACC_CAP + 1}

FilterCommands ==
    {Command(s, Globals(v, a)) : s \in SeqsUpTo(FilterSteps, MaxFilterSteps),
                                 v \in FilterVels, a \in FilterAccs}

----------------------------------------------------------------------------
(* Filter harness: one call of validate_command on a constructed Command.   *)

EmptyCommand == Command(<<>>, Globals(DEFAULT_VEL_SCALE, DEFAULT_ACCEL_SCALE))

\* the waypoint harness before _do_pick is entered
PickIdle == [pc |-> "idle", obj |-> <<0, 0, 0>>, grasp |-> None,
             pose |-> <<0, 0, 0>>, sent |-> <<>>]

BridgeIdle ==
    /\ pc = "idle"
    /\ cmd = EmptyCommand
    /\ i = 0
    /\ ret = None
    /\ results = <<>>
    /\ calls = <<>>
    /\ emitted = <<>>
    /\ armCons = FALSE
    /\ armVel = DEFAULT_VEL_SCALE
    /\ armAcc = DEFAULT_ACCEL_SCALE
    /\ obs = <<>>

InitFilter ==
    /\ BridgeIdle
    /\ pk = PickIdle
    /\ fcmd \in FilterCommands
    /\ fres = None

FilterCall ==
    /\ fres = None
    /\ fres' = Some(validate_command(fcmd))
    /\ UNCHANGED <<fcmd, pk, bridgeVars>>

NextFilter == FilterCall

SpecFilter == InitFilter /\ [][NextFilter]_vars

----------------------------------------------------------------------------
(* Inbound messages of the bridge: json.loads + Command.model_validate.     *)

RawMessage(json, steps, globals) ==
    [json |-> json, steps |-> steps, globals |-> globals]

\* Command.model_validate(json.loads(msg.data)), lines 43-44: None when it
\* raises.  The schema requires only `action` of a step (any string), fills
\* the Globals defaults, and puts no range or arity condition on numbers.
model_validate(raw) ==
    IF ~raw.json THEN None
    ELSE IF \E k \in 1..Len(raw.steps) : raw.steps[k].action = None THEN None
    ELSE Some(Command(
            [k \in 1..Len(raw.steps) |->
                [raw.steps[k] EXCEPT !.action = raw.steps[k].action[1]]],
            IF raw.globals = None
            THEN Globals(DEFAULT_VEL_SCALE, DEFAULT_ACCEL_SCALE)
            ELSE raw.globals[1]))

Offset010 == <<0, 0, 100>>

BridgeRawSteps ==
    {Step(Some("move_ee"), None, None, None, Some(TestPoseInside), None, None,
          Some(Constraints(TRUE))),
     Step(Some("move_ee"), None, None, None, Some(TestPoseOutside), None, None,
          None),
     Step(Some("move_ee"), None, None, Some("table"), None, Some(Offset010),
          None, Some(Constraints(FALSE))),
     Step(Some("pick"), Some("red_cube"), None, None, None, None,
          Some(Grasp(DEFAULT_PREGRASP_M)), Some(Constraints(TRUE))),
     Step(Some("place"), None, Some("blue_box"), None, None, Some(Offset010),
          None, None),
     Step(Some("dance"), None, None, None, None, None, None, None),
     Step(None, None, None, None, None, None, None, None),
     Step(Some("move_ee"), None, None, None, None, None, None, None),
     Step(Some("pick"), None, None, None, None, None, None, None),
     Step(Some("place"), None, None, None, None, None, None, None)}

BridgeGlobals == {None, Some(Globals(700, 0))}

BridgeMessages ==
    {RawMessage(FALSE, <<>>, None)}
    \cup {RawMessage(TRUE, s, g) : s \in SeqsUpTo(BridgeRawSteps, MaxSteps),
                                   g \in BridgeGlobals}

----------------------------------------------------------------------------
(* bridge/bridge.py: NLBridge                                                *)
(*                                                                         *)
(* The resolver and the motion backend are the environment: a lookup finds  *)
(* its frame or raises, a plan is found, empty or raises, a cartesian path  *)
(* completes any fraction or raises, every other call on self.arm returns   *)
(* or raises.  Only clear_path_constraints is taken to always return.       *)

CART_THRESHOLD == 990
FracVals == {989, 990, 1000}    \* completed fractions the backend may report

Status(status, kind, index, reason) ==
    [status |-> status, kind |-> kind, index |-> index, reason |-> reason]

\* self._emit_ok / self._emit_error: one publish each
_emit_ok(msg) == emitted' = Append(emitted, Status("ok", msg, -1, <<>>))
_emit_error(kind, index, reason) ==
    emitted' = Append(emitted, Status("error", kind, index, reason))

Entry(idx, name) == [step |-> idx, call |-> name]
Logged(names) == calls \o [k \in 1..Len(names) |-> Entry(i, names[k])]

cur == cmd.steps[i + 1]

Return(ok, err) ==
    /\ ret' = Some([ok |-> ok, err |-> err])
    /\ results' = Append(results, [ok |-> ok, err |-> err])
    /\ pc' = "ret"

Outcome(names, exc) == [names |-> names, exc |-> exc]

\* an answer of the resolver or the backend: lookup / plan 1 (found) or
\* 0 (not found, empty plan), frac the completed fraction
Answer(what, val) == [what |-> what, val |-> val]
LookupObs(o) ==
    IF o.names = <<>> THEN obs
    ELSE Append(obs, Answer("lookup", IF o.exc = "tf_lookup_failed" THEN 0 ELSE 1))
PlanObs(o) ==
    IF Len(o.names) = 3 /\ o.exc = ""
    THEN Append(obs, Answer("plan", IF o.found THEN 1 ELSE 0))
    ELSE obs

\* self.tf_buffer.lookup_transform inside _lookup_frame, lines 199-213: the
\* resolver finds the frame or raises; no frame is found for None.
_lookup_frame(frame_id) ==
    {Outcome(<<"lookup_transform">>, "tf_lookup_failed")}
    \cup IF frame_id = None THEN {}
         ELSE {Outcome(<<"lookup_transform">>, "")}

\* _pose_from_step, lines 156-174 (with _pose_from_xyzrpy, lines 188-197,
\* which unpacks xyzrpy[:3] and indexes xyzrpy[3..5]).
_pose_from_step(step) ==
    IF Truthy(step.pose_xyzrpy)
    THEN IF Len(step.pose_xyzrpy[1]) >= 6 THEN {Outcome(<<>>, "")}
         ELSE {Outcome(<<>>, "pose_arity")}
    ELSE IF step.frame # None /\ Truthy(step.offset_xyz)
    THEN {IF o.exc = "" /\ Len(step.offset_xyz[1]) < 3
          THEN Outcome(o.names, "IndexError") ELSE o :
             o \in _lookup_frame(step.frame)}
    ELSE {Outcome(<<>>, "pose_missing")}

\* an _apply_constraints without the clear of line 217
_apply_constraints_no_clear(cons) ==
    IF cons = None \/ ~cons[1].keep_vertical
    THEN {[names |-> <<>>, exc |-> "", installed |-> armCons]}
    ELSE {[names |-> <<"get_end_effector_link">>,
           exc |-> "backend", installed |-> armCons],
          [names |-> <<"get_end_effector_link", "set_path_constraints">>,
           exc |-> "backend", installed |-> armCons],
          [names |-> <<"get_end_effector_link", "set_path_constraints">>,
           exc |-> "", installed |-> TRUE]}

\* _apply_constraints, lines 215-230: the old constraint is cleared first;
\* keep_vertical installs a new one unless a backend call raises.
_apply_constraints(cons) ==
    IF cons = None \/ ~cons[1].keep_vertical
    THEN {[names |-> <<"clear_path_constraints">>, exc |-> "",
           installed |-> FALSE]}
    ELSE {[names |-> <<"clear_path_constraints", "get_end_effector_link">>,
           exc |-> "backend", installed |-> FALSE],
          [names |-> <<"clear_path_constraints", "get_end_effector_link",
                       "set_path_constraints">>,
           exc |-> "backend", installed |-> FALSE],
          [names |-> <<"clear_path_constraints", "get_end_effector_link",
                       "set_path_constraints">>,
           exc |-> "", installed |-> TRUE]}

\* set_start_state_to_current_state; set_pose_target; plan (lines 76-79,
\* 94-97, 137-140): any of the three may raise; plan may come back empty.
PlanOutcomes ==
    {[names |-> <<"set_start_state_to_current_state">>, exc |-> "backend",
      found |-> FALSE],
     [names |-> <<"set_start_state_to_current_state", "set_pose_target">>,
      exc |-> "backend", found |-> FALSE],
     [names |-> <<"set_start_state_to_current_state", "set_pose_target",
                  "plan">>, exc |-> "backend", found |-> FALSE],
     [names |-> <<"set_start_state_to_current_state", "set_pose_target",
                  "plan">>, exc |-> "", found |-> FALSE],
     [names |-> <<"set_start_state_to_current_state", "set_pose_target",
                  "plan">>, exc |-> "", found |-> TRUE]}

\* --------------------------- on_json ---------------------------------------

\* lines 41-47: a message arrives; a schema error is reported at once
on_json ==
    /\ pc = "idle"
    /\ \E raw \in BridgeMessages :
          /\ calls' = <<>>
          /\ i' = 0
          /\ ret' = None
          /\ results' = <<>>
          /\ obs' = <<>>
          /\ IF model_validate(raw) = None
             THEN /\ emitted' = <<Status("error", "schema_error", -1, <<>>)>>
                  /\ cmd' = EmptyCommand
                  /\ pc' = "done"
             ELSE /\ emitted' = <<>>
                  /\ cmd' = model_validate(raw)[1]
                  /\ pc' = "set_vel"
    /\ UNCHANGED <<armCons, armVel, armAcc, harnessVars>>

\* line 50, outside any try: an exception leaves on_json
apply_globals_vel ==
    /\ pc = "set_vel"
    /\ calls' = Append(calls, Entry(-1, "set_max_velocity_scaling_factor"))
    /\ \/ armVel' = cmd.globals_.vel_scale /\ pc' = "set_acc"
       \/ armVel' = armVel /\ pc' = "crashed"
    /\ UNCHANGED <<cmd, i, ret, results, emitted, armCons, armAcc, obs,
                   harnessVars>>

\* line 51, outside any try
apply_globals_acc ==
    /\ pc = "set_acc"
    /\ calls' = Append(calls, Entry(-1, "set_max_acceleration_scaling_factor"))
    /\ \/ armAcc' = cmd.globals_.accel_scale /\ pc' = "loop"
       \/ armAcc' = armAcc /\ pc' = "crashed"
    /\ UNCHANGED <<cmd, i, ret, results, emitted, armCons, armVel, obs,
                   harnessVars>>

\* a loop that stops after its first step
LoopDoneEarly == i >= 1 \/ i = Len(cmd.steps)

\* line 53: enumerate(cmd.steps) is exhausted
LoopDone == i = Len(cmd.steps)

\* lines 53-54 and execute_step, lines 63-70: the next step is dispatched on
\* its action
execute_step ==
    /\ pc = "loop"
    /\ ~LoopDone
    /\ IF cur.action \in {"move_ee", "pick", "place"}
       THEN /\ pc' = (IF cur.action = "move_ee" THEN "move_pose"
                      ELSE IF cur.action = "pick" THEN "pick_pose"
                      ELSE "place_pose")
            /\ ret' = None
            /\ results' = results
       ELSE Return(FALSE, <<"unknown_action", cur.action>>)
    /\ UNCHANGED <<cmd, i, calls, emitted, armCons, armVel, armAcc, obs,
                   harnessVars>>

\* a loop that ignores the result of execute_step
StepFailedNever(r) == FALSE

\* line 55: if not ok
StepFailed(r) == ~r.ok

\* lines 55-57: the result of execute_step ends the command or moves on
step_result ==
    /\ pc = "ret"
    /\ IF StepFailed(ret[1])
       THEN /\ _emit_error("step", i, ret[1].err)
            /\ pc' = "done"
            /\ i' = i
            /\ obs' = obs
       ELSE /\ emitted' = emitted
            /\ pc' = "loop"
            /\ i' = i + 1
            /\ obs' = <<>>
    /\ UNCHANGED <<cmd, ret, results, calls, armCons, armVel, armAcc,
                   harnessVars>>

\* line 59: the loop ran out of steps
emit_done ==
    /\ pc = "loop"
    /\ LoopDone
    /\ _emit_ok("done")
    /\ pc' = "done"
    /\ UNCHANGED <<cmd, i, ret, results, calls, armCons, armVel, armAcc, obs,
                   harnessVars>>

\* --------------------------- _do_move --------------------------------------

\* the except clause of _do_move, lines 85-86: nothing is retracted
MoveExcept(names, exc) ==
    /\ calls' = Logged(names)
    /\ Return(FALSE, <<"move_exception", exc>>)

\* line 74
_do_move_pose ==
    /\ pc = "move_pose"
    /\ \E o \in _pose_from_step(cur) :
          /\ obs' = LookupObs(o)
          /\ IF o.exc = ""
             THEN calls' = Logged(o.names) /\ pc' = "move_apply" /\ ret' = ret /\ results' = results
             ELSE MoveExcept(o.names, o.exc)
    /\ UNCHANGED <<cmd, i, emitted, armCons, armVel, armAcc, harnessVars>>

\* line 75
_do_move_apply ==
    /\ pc = "move_apply"
    /\ \E o \in _apply_constraints(cur.constraints) :
          /\ armCons' = o.installed
          /\ IF o.exc = ""
             THEN calls' = Logged(o.names) /\ pc' = "move_plan" /\ ret' = ret /\ results' = results
             ELSE MoveExcept(o.names, o.exc)
    /\ UNCHANGED <<cmd, i, emitted, armVel, armAcc, obs,
                   harnessVars>>

\* lines 76-80: an empty plan returns plan_failed without a retraction
_do_move_plan ==
    /\ pc = "move_plan"
    /\ \E o \in PlanOutcomes :
          /\ obs' = PlanObs(o)
          /\ IF o.exc # "" THEN MoveExcept(o.names, o.exc)
             ELSE IF ~o.found
             THEN calls' = Logged(o.names) /\ Return(FALSE, <<"plan_failed">>)
             ELSE calls' = Logged(o.names) /\ pc' = "move_execute" /\ ret' = ret /\ results' = results
    /\ UNCHANGED <<cmd, i, emitted, armCons, armVel, armAcc, harnessVars>>

\* lines 81-84
_do_move_execute ==
    /\ pc = "move_execute"
    /\ \/ MoveExcept(<<"execute">>, "backend") /\ armCons' = armCons
       \/ MoveExcept(<<"execute", "clear_pose_targets">>, "backend")
            /\ armCons' = armCons
       \/ /\ calls' = Logged(<<"execute", "clear_pose_targets",
                               "clear_path_constraints">>)
          /\ armCons' = FALSE
          /\ Return(TRUE, <<>>)
    /\ UNCHANGED <<cmd, i, emitted, armVel, armAcc, obs,
                   harnessVars>>

\* --------------------------- _do_pick --------------------------------------

\* a return that leaves the constraints as they are
ReturnWithoutClear(names, ok, err) ==
    /\ calls' = Logged(names)
    /\ armCons' = armCons
    /\ Return(ok, err)

\* a return of _do_pick / _do_place after self._clear_constraints()
ClearAndReturn(names, ok, err) ==
    /\ calls' = Logged(names \o <<"clear_path_constraints">>)
    /\ armCons' = FALSE
    /\ Return(ok, err)

\* an except clause that reports success
PickExceptSwallowed(names, exc) == ClearAndReturn(names, TRUE, <<>>)

\* the except clause of _do_pick, lines 127-129
PickExcept(names, exc) == ClearAndReturn(names, FALSE, <<"pick_exception", exc>>)

\* line 92: _pose_above_object looks the object's frame up
_do_pick_pose ==
    /\ pc = "pick_pose"
    /\ \E o \in _lookup_frame(cur.object) :
          /\ obs' = LookupObs(o)
          /\ IF o.exc = ""
             THEN /\ calls' = Logged(o.names) /\ pc' = "pick_apply"
                  /\ ret' = ret /\ results' = results /\ armCons' = armCons
             ELSE PickExcept(o.names, o.exc)
    /\ UNCHANGED <<cmd, i, emitted, armVel, armAcc, harnessVars>>

\* line 93
_do_pick_apply ==
    /\ pc = "pick_apply"
    /\ \E o \in _apply_constraints(cur.constraints) :
          IF o.exc = ""
          THEN /\ calls' = Logged(o.names) /\ pc' = "pick_plan"
               /\ ret' = ret /\ results' = results /\ armCons' = o.installed
          ELSE PickExcept(o.names, o.exc)
    /\ UNCHANGED <<cmd, i, emitted, armVel, armAcc, obs,
                   harnessVars>>

\* a pregrasp phase that goes on to the descend whatever plan() returned
_do_pick_plan_ungated ==
    /\ pc = "pick_plan"
    /\ \E o \in PlanOutcomes :
          /\ obs' = PlanObs(o)
          /\ IF o.exc # "" THEN PickExcept(o.names, o.exc)
             ELSE /\ calls' = Logged(o.names) /\ pc' = "pick_descend"
                  /\ ret' = ret /\ results' = results /\ armCons' = armCons
    /\ UNCHANGED <<cmd, i, emitted, armVel, armAcc, harnessVars>>

\* lines 94-99
_do_pick_plan ==
    /\ pc = "pick_plan"
    /\ \E o \in PlanOutcomes :
          /\ obs' = PlanObs(o)
          /\ IF o.exc # "" THEN PickExcept(o.names, o.exc)
             ELSE IF ~o.found
             THEN ClearAndReturn(o.names, FALSE, <<"pregrasp_plan_failed">>)
             ELSE /\ calls' = Logged(o.names) /\ pc' = "pick_descend"
                  /\ ret' = ret /\ results' = results /\ armCons' = armCons
    /\ UNCHANGED <<cmd, i, emitted, armVel, armAcc, harnessVars>>

\* the threshold test with the bound itself refused
BelowOrAtThreshold(frac) == frac <= CART_THRESHOLD

\* lines 108, 120: frac < 0.99
BelowThreshold(frac) == frac < CART_THRESHOLD

\* lines 100-110: the pregrasp plan is executed, then the descend path is
\* computed and its fraction tested
_do_pick_descend ==
    /\ pc = "pick_descend"
    /\ \/ PickExcept(<<"execute">>, "backend") /\ obs' = obs
       \/ PickExcept(<<"execute", "compute_cartesian_path">>, "backend")
            /\ obs' = obs
       \/ \E frac \in FracVals :
            /\ obs' = Append(obs, Answer("frac", frac))
            /\ IF BelowThreshold(frac)
               THEN ClearAndReturn(<<"execute", "compute_cartesian_path">>, FALSE,
                                   <<"cartesian_descend_failed">>)
               ELSE /\ calls' = Logged(<<"execute", "compute_cartesian_path">>)
                    /\ pc' = "pick_lift" /\ ret' = ret /\ results' = results /\ armCons' = armCons
    /\ UNCHANGED <<cmd, i, emitted, armVel, armAcc, harnessVars>>

\* lines 111-122: the descend path is executed, then the lift path is
\* computed and its fraction tested
_do_pick_lift ==
    /\ pc = "pick_lift"
    /\ \/ PickExcept(<<"execute">>, "backend") /\ obs' = obs
       \/ PickExcept(<<"execute", "compute_cartesian_path">>, "backend")
            /\ obs' = obs
       \/ \E frac2 \in FracVals :
            /\ obs' = Append(obs, Answer("frac", frac2))
            /\ IF BelowThreshold(frac2)
               THEN ClearAndReturn(<<"execute", "compute_cartesian_path">>, FALSE,
                                   <<"cartesian_lift_failed">>)
               ELSE /\ calls' = Logged(<<"execute", "compute_cartesian_path">>)
                    /\ pc' = "pick_finish" /\ ret' = ret /\ results' = results /\ armCons' = armCons
    /\ UNCHANGED <<cmd, i, emitted, armVel, armAcc, harnessVars>>

\* lines 123-126
_do_pick_finish ==
    /\ pc = "pick_finish"
    /\ \/ PickExcept(<<"execute">>, "backend")
       \/ ClearAndReturn(<<"execute">>, TRUE, <<>>)
    /\ UNCHANGED <<cmd, i, emitted, armVel, armAcc, obs,
                   harnessVars>>

\* --------------------------- _do_place -------------------------------------

\* the except clause of _do_place, lines 150-152
PlaceExcept(names, exc) ==
    ClearAndReturn(names, FALSE, <<"place_exception", exc>>)

\* lines 134-135: _pose_at_target looks the target's frame up and indexes
\* offset[0..2]
_do_place_pose ==
    /\ pc = "place_pose"
    /\ \E o \in _lookup_frame(cur.target) :
          /\ obs' = LookupObs(o)
          /\ IF o.exc # "" THEN PlaceExcept(o.names, o.exc)
             ELSE IF Truthy(cur.offset_xyz) /\ Len(cur.offset_xyz[1]) < 3
             THEN PlaceExcept(o.names, "IndexError")
             ELSE /\ calls' = Logged(o.names) /\ pc' = "place_apply"
                  /\ ret' = ret /\ results' = results /\ armCons' = armCons
    /\ UNCHANGED <<cmd, i, emitted, armVel, armAcc, harnessVars>>

\* line 136
_do_place_apply ==
    /\ pc = "place_apply"
    /\ \E o \in _apply_constraints(cur.constraints) :
          IF o.exc = ""
          THEN /\ calls' = Logged(o.names) /\ pc' = "place_plan"
               /\ ret' = ret /\ results' = results /\ armCons' = o.installed
          ELSE PlaceExcept(o.names, o.exc)
    /\ UNCHANGED <<cmd, i, emitted, armVel, armAcc, obs,
                   harnessVars>>

\* lines 137-142
_do_place_plan ==
    /\ pc = "place_plan"
    /\ \E o \in PlanOutcomes :
          /\ obs' = PlanObs(o)
          /\ IF o.exc # "" THEN PlaceExcept(o.names, o.exc)
             ELSE IF ~o.found
             THEN ClearAndReturn(o.names, FALSE, <<"place_plan_failed">>)
             ELSE /\ calls' = Logged(o.names) /\ pc' = "place_execute"
                  /\ ret' = ret /\ results' = results /\ armCons' = armCons
    /\ UNCHANGED <<cmd, i, emitted, armVel, armAcc, harnessVars>>

\* lines 143-149
_do_place_execute ==
    /\ pc = "place_execute"
    /\ \/ PlaceExcept(<<"execute">>, "backend")
       \/ ClearAndReturn(<<"execute">>, TRUE, <<>>)
    /\ UNCHANGED <<cmd, i, emitted, armVel, armAcc, obs,
                   harnessVars>>

\* --------------------------- main ------------------------------------------

\* rclpy.spin, line 244: on_json has returned, its locals are gone and the
\* node waits for the next message.  An exception that left on_json ends spin.
spin ==
    /\ pc = "done"
    /\ pc' = "idle"
    /\ cmd' = EmptyCommand
    /\ i' = 0
    /\ ret' = None
    /\ results' = <<>>
    /\ calls' = <<>>
    /\ emitted' = <<>>
    /\ obs' = <<>>
    /\ UNCHANGED <<armCons, armVel, armAcc, harnessVars>>

----------------------------------------------------------------------------

Init ==
    /\ BridgeIdle
    /\ fcmd = EmptyCommand
    /\ fres = None
    /\ pk = PickIdle

Next ==
    \/ on_json
    \/ apply_globals_vel
    \/ apply_globals_acc
    \/ execute_step
    \/ step_result
    \/ emit_done
    \/ _do_move_pose
    \/ _do_move_apply
    \/ _do_move_plan
    \/ _do_move_execute
    \/ _do_pick_pose
    \/ _do_pick_apply
    \/ _do_pick_plan
    \/ _do_pick_descend
    \/ _do_pick_lift
    \/ _do_pick_finish
    \/ _do_place_pose
    \/ _do_place_apply
    \/ _do_place_plan
    \/ _do_place_execute
    \/ spin

Spec == Init /\ [][Next]_vars

-----------------------------------------------------------------------------
(* The waypoints of _do_pick: the poses it builds and hands to the backend, *)
(* with positions in thousandths of a metre.  pre, descend.pose and lift    *)
(* share one pose object (lines 105, 117), kept in pk.pose.                 *)

PickObjects ==
    {<<x, y, z>> : x \in {0, 300}, y \in {-100}, z \in {0, 50, 200}}
    \cup {<<0, 400, z>> : z \in {0, 50, 200}}
PickGrasps == {None} \cup {Some(Grasp(d)) : d \in {0, 5, 10, 80, 120}}

\* lines 92, 106: step.grasp.pregrasp_m if step.grasp else 0.08
PregraspOf(grasp) ==
    IF grasp = None THEN DEFAULT_PREGRASP_M ELSE grasp[1].pregrasp_m

\* _pose_above_object, lines 176-179, on a successful lookup of the object
_pose_above_object(obj, dz) == [obj EXCEPT ![3] = @ + dz]

\* a descend all the way to the object's frame
DescendToObject(dz) == dz

\* line 106: the pose is lowered by pregrasp_m - 0.01
DescendBy(dz) == dz - 10

\* line 118: the pose is raised by 0.10
LiftBy == 100

InitPick ==
    /\ BridgeIdle
    /\ fcmd = EmptyCommand
    /\ fres = None
    /\ pk \in {[pc |-> "pregrasp", obj |-> o, grasp |-> g, pose |-> <<0, 0, 0>>,
                sent |-> <<>>] : o \in PickObjects, g \in PickGrasps}

\* lines 92-96: pre is built and given to set_pose_target
pregrasp ==
    /\ pk.pc = "pregrasp"
    /\ LET pre == _pose_above_object(pk.obj, PregraspOf(pk.grasp)) IN
          pk' = [pk EXCEPT !.pose = pre, !.sent = Append(@, pre),
                           !.pc = "descend"]
    /\ UNCHANGED <<bridgeVars, filterVars>>

\* lines 103-107: the shared pose is lowered and given to
\* compute_cartesian_path
descend ==
    /\ pk.pc = "descend"
    /\ LET lowered == [pk.pose EXCEPT ![3] = @ - DescendBy(PregraspOf(pk.grasp))] IN
          pk' = [pk EXCEPT !.pose = lowered, !.sent = Append(@, lowered),
                           !.pc = "lift"]
    /\ UNCHANGED <<bridgeVars, filterVars>>

\* lines 117-119: the same pose is raised and given to
\* compute_cartesian_path
lift ==
    /\ pk.pc = "lift"
    /\ LET raised == [pk.pose EXCEPT ![3] = @ + LiftBy] IN
          pk' = [pk EXCEPT !.pose = raised, !.sent = Append(@, raised),
                           !.pc = "lifted"]
    /\ UNCHANGED <<bridgeVars, filterVars>>

NextPick == pregrasp \/ descend \/ lift

SpecPick == InitPick /\ [][NextPick]_vars

----------------------------------------------------------------------------
(* Vocabulary of the filter claims, stated from the rules and independent  *)
(* of the operators that model the code.                                     *)

FilterReturned == fres # None
Verdict == fres[1]

Disallowed(step) == step.action \notin {"move_ee", "pick", "place"}

CarriesPose(step) == step.pose_xyzrpy # None /\ step.pose_xyzrpy[1] # <<>>

Position(step) ==
    LET p == step.pose_xyzrpy[1]
    IN SubSeq(p, 1, IF Len(p) < 3 THEN Len(p) ELSE 3)

\* the coordinate given for axis a lies outside its closed interval
OutsideOnAxis(step, a) ==
    /\ a <= Len(Position(step))
    /\ \/ a = 1 /\ (Position(step)[1] < -400 \/ Position(step)[1] > 600)
       \/ a = 2 /\ (Position(step)[2] < -400 \/ Position(step)[2] > 600)
       \/ a = 3 /\ (Position(step)[3] < 0 \/ Position(step)[3] > 600)

OutsideEnvelope(step) ==
    CarriesPose(step) /\ \E a \in 1..3 : OutsideOnAxis(step, a)

\* a complete xyz position with every coordinate in its closed interval
InsideEnvelope(step) ==
    /\ CarriesPose(step)
    /\ Len(Position(step)) = 3
    /\ \A a \in 1..3 : ~OutsideOnAxis(step, a)

OnEnvelopeBound(step) ==
    /\ InsideEnvelope(step)
    /\ \/ Position(step)[1] \in {-400, 600}
       \/ Position(step)[2] \in {-400, 600}
       \/ Position(step)[3] \in {0, 600}

StepIndexes(c) == 1..Len(c.steps)
AllAllowed(c) == \A k \in StepIndexes(c) : ~Disallowed(c.steps[k])
AnyDisallowed(c) == \E k \in StepIndexes(c) : Disallowed(c.steps[k])
AnyOutside(c) == \E k \in StepIndexes(c) : OutsideEnvelope(c.steps[k])
PosesClean(c) ==
    \A k \in StepIndexes(c) :
        CarriesPose(c.steps[k]) => InsideEnvelope(c.steps[k])
FirstOutside(c) ==
    CHOOSE k \in StepIndexes(c) :
        /\ OutsideEnvelope(c.steps[k])
        /\ \A j \in 1..(k - 1) : ~OutsideEnvelope(c.steps[j])

Violates(step) == Disallowed(step) \/ OutsideEnvelope(step)
AnyViolates(c) == \E k \in StepIndexes(c) : Violates(c.steps[k])
FirstViolating(c) ==
    CHOOSE k \in StepIndexes(c) :
        /\ Violates(c.steps[k])
        /\ \A j \in 1..(k - 1) : ~Violates(c.steps[j])

\* reason by rule-major order: every action before any workspace bound
RuleMajorReason(c) ==
    IF AnyDisallowed(c) THEN "invalid_action"
    ELSE IF AnyOutside(c) THEN "out_of_workspace"
    ELSE IF c.globals_.vel_scale > 600 THEN "vel_too_high"
    ELSE IF c.globals_.accel_scale > 600 THEN "accel_too_high"
    ELSE ""

\* reason by step-major order: the first violating step decides
StepMajorReason(c) ==
    IF AnyViolates(c)
    THEN IF Disallowed(c.steps[FirstViolating(c)]) THEN "invalid_action"
         ELSE "out_of_workspace"
    ELSE IF c.globals_.vel_scale > 600 THEN "vel_too_high"
    ELSE IF c.globals_.accel_scale > 600 THEN "accel_too_high"
    ELSE ""

----------------------------------------------------------------------------
(* Claims about the safety filter, checked under SpecFilter.                *)

\* C6 (as stated): whenever validate_command returns a verdict, its reason
\* is the first violated rule in the order allow-list, workspace bound,
\* velocity cap, acceleration cap, each rule taken over all steps: a
\* disallowed action anywhere wins over an out-of-envelope pose anywhere.
C6_RuleMajorOrder ==
    (FilterReturned /\ Verdict.kind # "raise")
        => Verdict.error = RuleMajorReason(fcmd)

\* C6 (amended): whenever validate_command returns a verdict, its reason is
\* decided by the first step in list order that violates a rule
\* (invalid_action if that step's action is disallowed, else
\* out_of_workspace); only when no step violates a rule is vel_too_high and
\* then accel_too_high reported.
C6_StepMajorOrder ==
    (FilterReturned /\ Verdict.kind # "raise")
        => /\ Verdict.error = StepMajorReason(fcmd)
           /\ Verdict.kind = (IF StepMajorReason(fcmd) = "" THEN "ok" ELSE "error")

\* C6 witness: an out-of-envelope pose in an earlier step is reported
\* although a later step has a disallowed action.
C6_Witness ==
    /\ FilterReturned
    /\ Verdict.error = "out_of_workspace"
    /\ Len(fcmd.steps) = 2
    /\ OutsideEnvelope(fcmd.steps[1]) /\ ~Disallowed(fcmd.steps[1])
    /\ Disallowed(fcmd.steps[2])

\* C7: a command whose steps all have allowed actions and one of whose steps
\* has a pose outside the envelope on some axis is rejected with
\* out_of_workspace, the hint carrying the coordinates of the first such
\* step.
C7_OutOfWorkspace ==
    (FilterReturned /\ AllAllowed(fcmd) /\ AnyOutside(fcmd))
        => Verdict = Reject("out_of_workspace",
                            Position(fcmd.steps[FirstOutside(fcmd)]))

\* C8: a command with allowed actions only, every carried pose inside the
\* closed envelope and both scales at or below their caps is accepted; steps
\* without a pose are not workspace-checked.
C8_Accepts ==
    (/\ FilterReturned
     /\ AllAllowed(fcmd)
     /\ PosesClean(fcmd)
     /\ fcmd.globals_.vel_scale <= 600
     /\ fcmd.globals_.accel_scale <= 600)
        => Verdict = Ok

\* C8 witness: default Globals, a pick without pose and a pose on the
\* envelope bound, accepted.
C8_Witness ==
    /\ FilterReturned
    /\ Verdict = Ok
    /\ fcmd.globals_ = Globals(500, 300)
    /\ \E k \in StepIndexes(fcmd) :
          fcmd.steps[k].action = "pick" /\ ~CarriesPose(fcmd.steps[k])
    /\ \E k \in StepIndexes(fcmd) : OnEnvelopeBound(fcmd.steps[k])

\* C9: with no other violation, a scale strictly above the cap 0.6 is
\* rejected (vel_too_high before accel_too_high) and a scale exactly at the
\* cap is accepted.
C9_CapInclusive ==
    (FilterReturned /\ AllAllowed(fcmd) /\ PosesClean(fcmd))
        => /\ fcmd.globals_.vel_scale > 600
                => Verdict.kind = "error" /\ Verdict.error = "vel_too_high"
           /\ (fcmd.globals_.vel_scale <= 600 /\ fcmd.globals_.accel_scale > 600)
                => Verdict.kind = "error" /\ Verdict.error = "accel_too_high"
           /\ (fcmd.globals_.vel_scale <= 600 /\ fcmd.globals_.accel_scale <= 600)
                => Verdict = Ok

\* C9 witness: both scales exactly at the cap, accepted.
C9_Witness ==
    /\ FilterReturned
    /\ Verdict = Ok
    /\ fcmd.steps # <<>>
    /\ fcmd.globals_ = Globals(600, 600)

\* C10: validate_command returns an accept or a reject value for every
\* Command the schema accepts, and never raises.
C10_Total ==
    FilterReturned => Verdict.kind \in {"ok", "error"}

----------------------------------------------------------------------------
(* Vocabulary of the bridge claims.                                         *)

HandlerReturned == pc = "done"
HandlerRaised == pc = "crashed"
HandlerOver == HandlerReturned \/ HandlerRaised

SchemaRejected == emitted # <<>> /\ emitted[1].kind = "schema_error"
OkEmitted == \E k \in 1..Len(emitted) : emitted[k].status = "ok"

IsBackendCall(e) == e.call # "lookup_transform"
BackendRequested == \E k \in 1..Len(calls) : IsBackendCall(calls[k])

FailedResults == {k \in 1..Len(results) : ~results[k].ok}
\* 0-based index of the first step whose execution failed
FirstFailed ==
    (CHOOSE k \in FailedResults : \A j \in FailedResults : k <= j) - 1

AllStepsSucceeded ==
    /\ Len(results) = Len(cmd.steps)
    /\ \A k \in 1..Len(results) : results[k].ok

\* requests are logged in list order of their steps, and a request of step s
\* is made only when every earlier step has returned success
StepsInOrder ==
    /\ \A a, b \in 1..Len(calls) : a < b => calls[a].step <= calls[b].step
    /\ \A a \in 1..Len(calls) :
          \A s \in 1..calls[a].step : s <= Len(results) /\ results[s].ok

\* the two scaling setters are the first two requests and are made once
GlobalsOnceFirst ==
    \A a \in 1..Len(calls) :
        /\ (calls[a].call = "set_max_velocity_scaling_factor") <=> (a = 1)
        /\ (calls[a].call = "set_max_acceleration_scaling_factor") <=> (a = 2)
        /\ (calls[a].step = -1) <=> (a <= 2)

----------------------------------------------------------------------------
(* Claims about the bridge, checked under Spec.                              *)

\* C1: whenever on_json has returned with a terminal status emitted, no path
\* constraint is installed on the arm: every step that installed one has
\* retracted it on every exit path.
C1_ConstraintRetracted ==
    (HandlerReturned /\ emitted # <<>>) => ~armCons

\* C2: for a schema-valid command that validate_command rejects the executor
\* makes no backend request at all.
C2_FilterGatesExecution ==
    validate_command(cmd).kind = "error" => ~BackendRequested

\* C3: if step k is the first step whose execution fails, no resolver or
\* backend request is made for a step after k, and the status the handler
\* returns with is the error step_k:<reason of step k>.
C3_AbortOnFirstFailure ==
    FailedResults # {}
        => /\ \A a \in 1..Len(calls) : calls[a].step <= FirstFailed
           /\ Len(results) = FirstFailed + 1
           /\ HandlerOver =>
                emitted = <<Status("error", "step", FirstFailed,
                                   results[FirstFailed + 1].err)>>

\* C3 witness: the first step failed, a step that would have moved the arm
\* follows it, and the handler has returned.
C3_Witness ==
    /\ HandlerReturned
    /\ FailedResults # {}
    /\ FirstFailed + 1 < Len(cmd.steps)
    /\ cmd.steps[FirstFailed + 2].action \in {"move_ee", "pick", "place"}
    /\ BackendRequested

\* C4: every inbound message has exactly one terminal status when its
\* handler is over, also when a backend call raised.
C4_ExactlyOneStatus ==
    /\ Len(emitted) <= 1
    /\ HandlerOver => Len(emitted) = 1

-----------------------------------------------------------------------------
(* Construction-time rejection: C11, C12, C13.                              *)

HasUnknownAction ==
    \E k \in 1..Len(cmd.steps) :
        cmd.steps[k].action \notin {"move_ee", "pick", "place"}

HasMissingField ==
    \E k \in 1..Len(cmd.steps) :
        \/ cmd.steps[k].action = "pick" /\ cmd.steps[k].object = None
        \/ cmd.steps[k].action = "place" /\ cmd.steps[k].target = None

\* a scaling factor (in thousandths) inside (0, 1]
ScaleInRange(v) == v > 0 /\ v <= 1000

HasScaleOutOfRange ==
    \/ ~ScaleInRange(cmd.globals_.vel_scale)
    \/ ~ScaleInRange(cmd.globals_.accel_scale)

\* C11: a command holding a step whose action is none of move_ee, pick and
\* place is refused at construction: no request at all is made for it (no
\* Globals setter, no step), and the handler ends with a schema_error status.
C11_UnknownActionRejected ==
    HasUnknownAction
        => /\ calls = <<>>
           /\ HandlerOver => SchemaRejected

\* C12: a command holding a pick step without object or a place step without
\* target is refused at construction: no pose lookup and no backend request
\* is made for it, and the handler ends with a schema_error status.
C12_MissingFieldRejected ==
    HasMissingField
        => /\ calls = <<>>
           /\ HandlerOver => SchemaRejected

\* C13: the velocity and acceleration scaling applied to the arm always lie
\* in (0, 1], and a command whose vel_scale or accel_scale lies outside
\* (0, 1] makes no backend request and ends with a schema_error status.
C13_ScalesInRange ==
    /\ ScaleInRange(armVel)
    /\ ScaleInRange(armAcc)
    /\ HasScaleOutOfRange
          => /\ ~BackendRequested
             /\ HandlerOver => SchemaRejected

-----------------------------------------------------------------------------
(* The pick step: C14.                                                      *)

\* the requests logged for the step being executed, in order
CurCalls == SelectSeq(calls, LAMBDA e : e.step = i)
\* the completed fractions the backend returned during the step, in order
Fracs == SelectSeq(obs, LAMBDA a : a.what = "frac")
IsCompute(e) == e.call = "compute_cartesian_path"
\* position in CurCalls of the k-th cartesian-path request
ComputeAt(k) ==
    CHOOSE p \in 1..Len(CurCalls) :
        /\ IsCompute(CurCalls[p])
        /\ Cardinality({q \in 1..p : IsCompute(CurCalls[q])}) = k
PhaseReason(k) ==
    IF k = 1 THEN "cartesian_descend_failed" ELSE "cartesian_lift_failed"
\* the step has returned to on_json, which goes on or has ended on its failure
StepReturned == pc = "ret" \/ (pc = "done" /\ obs # <<>>)

\* C14: when the k-th cartesian request of a pick step (1 descend, 2 lift)
\* came back with a fraction of at least 0.99, the step does not fail with
\* that phase's reason and the next request, if any, executes the path; when
\* the fraction is below 0.99 the step returns failure with that phase's
\* reason and no execute follows the request.
C14_CartesianThreshold ==
    \A k \in 1..Len(Fracs) :
        LET p == ComputeAt(k) IN
        IF Fracs[k].val >= 990
        THEN /\ ~(StepReturned /\ ret[1].err = <<PhaseReason(k)>>)
             /\ Len(CurCalls) > p => CurCalls[p + 1].call = "execute"
        ELSE /\ StepReturned
             /\ ret[1] = [ok |-> FALSE, err |-> <<PhaseReason(k)>>]
             /\ \A q \in (p + 1)..Len(CurCalls) : CurCalls[q].call # "execute"

\* descend accepted at exactly 0.99, lift refused at 0.989
C14_Witness ==
    /\ StepReturned
    /\ Len(Fracs) = 2
    /\ Fracs[1].val = 990
    /\ Fracs[2].val = 989

-----------------------------------------------------------------------------
(* Steps without a usable target, and resolver failures: C15, C16.          *)

\* a step of the command is being executed or has just returned
InStep == i < Len(cmd.steps) /\ pc \notin {"idle", "set_vel", "set_acc", "crashed"}

Unresolvable(step) ==
    \/ /\ step.action = "move_ee"
       /\ step.pose_xyzrpy = None
       /\ step.frame = None \/ step.offset_xyz = None
    \/ step.action = "pick" /\ step.object = None
    \/ step.action = "place" /\ step.target = None

Mentions(err, word) == \E k \in 1..Len(err) : err[k] = word

\* C15: a step with no usable target (move_ee without pose and without
\* frame plus offset, pick without object, place without target) makes no
\* backend request, and when it has returned it has failed with a reason
\* that names pose_missing.
C15_PoseMissingBeforeBackend ==
    (InStep /\ Unresolvable(cur))
        => /\ \A k \in 1..Len(CurCalls) : ~IsBackendCall(CurCalls[k])
           /\ StepReturned
                 => /\ ~ret[1].ok
                    /\ Mentions(ret[1].err, "pose_missing")

\* the resolver was asked during the step and failed
LookupFailed == \E k \in 1..Len(obs) : obs[k] = [what |-> "lookup", val |-> 0]

NamesItsFrame(step) ==
    \/ step.action = "pick" /\ step.object # None
    \/ step.action = "place" /\ step.target # None

\* C16: when the resolver fails on the object of a pick step (the target of
\* a place step) at index i, the step requests no motion (its only requests
\* are the lookup and the retraction of constraints), no request is made
\* for a later step, the step returns failure with the resolver's failure
\* reason (tf_lookup_failed), and the handler ends with the error status of
\* index i carrying that reason.
C16_ResolutionFailureAborts ==
    (InStep /\ NamesItsFrame(cur) /\ LookupFailed)
        => /\ \A k \in 1..Len(CurCalls) :
                 CurCalls[k].call \in {"lookup_transform", "clear_path_constraints"}
           /\ \A a \in 1..Len(calls) : calls[a].step <= i
           /\ StepReturned
                 => /\ ~ret[1].ok
                    /\ Mentions(ret[1].err, "tf_lookup_failed")
           /\ HandlerReturned
                 => emitted = <<[status |-> "error", kind |-> "step",
                                 index |-> i, reason |-> ret[1].err]>>

\* pick(red_cube), place(blue_box) with red_cube unresolvable: index 0
C16_Witness ==
    /\ HandlerReturned
    /\ LookupFailed
    /\ Len(cmd.steps) = 2
    /\ cmd.steps[1].action = "pick" /\ cmd.steps[1].object = <<"red_cube">>
    /\ cmd.steps[2].action = "place" /\ cmd.steps[2].target = <<"blue_box">>
    /\ emitted[1].index = 0

-----------------------------------------------------------------------------
(* The three phases of pick: C17.                                           *)

InPick == InStep /\ cur.action = "pick"
Computes == {p \in 1..Len(CurCalls) : IsCompute(CurCalls[p])}
PlanAnswered(v) == \E k \in 1..Len(obs) : obs[k] = [what |-> "plan", val |-> v]
ReturnedWith(reason) ==
    StepReturned /\ ret[1] = [ok |-> FALSE, err |-> <<reason>>]

\* C17: in a pick step the descend request directly follows the execution
\* of a pregrasp plan that was found, and the lift request directly follows
\* the execution of a descend path whose fraction reached 0.99; an empty
\* pregrasp plan, a descend fraction and a lift fraction below 0.99 return
\* pregrasp_plan_failed, cartesian_descend_failed and cartesian_lift_failed
\* with no cartesian request, one, and two with no execute after the second;
\* the step returns success only when the lift path was the last thing
\* executed.
C17_PickPhasesGated ==
    InPick =>
        /\ Cardinality(Computes) <= 2
        /\ \A p \in Computes :
              /\ p >= 3
              /\ CurCalls[p - 1].call = "execute"
              /\ IF p = ComputeAt(1)
                 THEN CurCalls[p - 2].call = "plan" /\ PlanAnswered(1)
                 ELSE /\ p - 2 = ComputeAt(1)
                      /\ Fracs[1].val >= 990
        /\ PlanAnswered(0)
              => ReturnedWith("pregrasp_plan_failed") /\ Computes = {}
        /\ (Len(Fracs) >= 1 /\ Fracs[1].val < 990)
              => ReturnedWith("cartesian_descend_failed")
                    /\ Cardinality(Computes) = 1
        /\ (Len(Fracs) = 2 /\ Fracs[2].val < 990)
              => ReturnedWith("cartesian_lift_failed")
                    /\ CurCalls[Len(CurCalls) - 1].call = "compute_cartesian_path"
        /\ (StepReturned /\ ret[1].ok)
              => /\ Len(Fracs) = 2
                 /\ Fracs[2].val >= 990
                 /\ CurCalls[Len(CurCalls) - 1].call = "execute"
                 /\ Len(CurCalls) - 2 = ComputeAt(2)

\* a pick step that went through all three phases and returned success
C17_Witness ==
    /\ InPick
    /\ StepReturned
    /\ ret[1].ok
    /\ Cardinality(Computes) = 2

-----------------------------------------------------------------------------
(* Constraints within a step and at planning time: C18, C20.                *)

InPickOrPlace == InStep /\ cur.action \in {"pick", "place"}
KeepsVertical(step) ==
    step.constraints # None /\ step.constraints[1].keep_vertical
Positions(name) == {p \in 1..Len(CurCalls) : CurCalls[p].call = name}
Clears == Positions("clear_path_constraints")
Installs == Positions("set_path_constraints")
PlanStarts == Positions("set_start_state_to_current_state")

\* C18: in a pick or place step the constraint is installed at most once;
\* when planning starts the constraints have been applied exactly once
\* before it (one clear, and one installation iff keep_vertical is set);
\* and when the step has returned, on whichever path, its last request is a
\* retraction made after any installation and besides the one of the apply,
\* and no constraint is left on the arm.
C18_AppliedOnceRetractedAlways ==
    InPickOrPlace =>
        /\ Cardinality(Installs) <= 1
        /\ Cardinality(PlanStarts) <= 1
        /\ \A q \in PlanStarts :
              /\ Cardinality({p \in Clears : p < q}) = 1
              /\ Cardinality({p \in Installs : p < q})
                    = (IF KeepsVertical(cur) THEN 1 ELSE 0)
              /\ \A p \in Installs : p < q
        /\ StepReturned
              => /\ CurCalls # <<>>
                 /\ CurCalls[Len(CurCalls)].call = "clear_path_constraints"
                 /\ \A p \in Installs : p < Len(CurCalls)
                 /\ Len(CurCalls) > 2 => Cardinality(Clears) = 2
                 /\ ~armCons

\* a pick with keep_vertical that returns on its lift failure
C18_Witness ==
    /\ InPickOrPlace
    /\ KeepsVertical(cur)
    /\ ReturnedWith("cartesian_lift_failed")
    /\ Cardinality(Installs) = 1

\* the handler is about to request a plan or a cartesian path
AtPlanning ==
    InStep /\ pc \in {"move_plan", "pick_plan", "pick_descend", "pick_lift",
                      "place_plan"}

\* C20: whenever a plan or a cartesian path is about to be requested, the
\* path constraint on the arm is the current step's own: installed if and
\* only if the current step sets keep_vertical.
C20_OwnConstraintAtPlanning ==
    AtPlanning => (armCons <=> KeepsVertical(cur))

\* a step without keep_vertical plans after a step of the same command that
\* had it
C20_Witness ==
    /\ AtPlanning
    /\ i >= 1
    /\ KeepsVertical(cmd.steps[i])
    /\ ~KeepsVertical(cur)
    /\ ~armCons

-----------------------------------------------------------------------------
(* Pick waypoint heights: C19.                                              *)

\* the pregrasp distance of the step, 0.08 without a grasp
PickDistance == IF pk.grasp = None THEN 80 ELSE pk.grasp[1].pregrasp_m
Waypoint(dz) == <<pk.obj[1], pk.obj[2], pk.obj[3] + dz>>
WaypointValues ==
    /\ Len(pk.sent) >= 1 => pk.sent[1] = Waypoint(PickDistance)
    /\ Len(pk.sent) >= 2 => pk.sent[2] = Waypoint(10)
    /\ Len(pk.sent) >= 3 => /\ pk.sent[3] = Waypoint(110)
                            /\ pk.sent[3][3] = pk.sent[2][3] + 100

\* C19: the pregrasp target is the object's position raised by d, the
\* descend waypoint the object's raised by 0.01 and never above the pregrasp
\* target, the lift waypoint the object's raised by 0.11, 0.10 above the
\* descend waypoint; d is 0.08 when the step has no grasp.
C19_WaypointHeights ==
    /\ WaypointValues
    /\ Len(pk.sent) >= 2 => pk.sent[2][3] <= pk.sent[1][3]

\* C19 as it holds: the three waypoints are as stated, and the descend
\* waypoint is at or below the pregrasp target exactly when d >= 0.01.
C19_WaypointHeightsFromMargin ==
    /\ WaypointValues
    /\ Len(pk.sent) >= 2
          => (pk.sent[2][3] <= pk.sent[1][3] <=> PickDistance >= 10)

\* all three waypoints sent for a pregrasp distance below the margin
C19_Witness ==
    /\ Len(pk.sent) = 3
    /\ PickDistance < 10

====
